---- MODULE Spec2Model ----
(***************************************************************************)
(* Model of plasmasaver.c: the static-area detector (capture/diff/age),    *)
(* the pointer "cleaning" circle, the bar animation and the on_draw        *)
(* (re-)initialisation, as dispatched serially by the GTK main loop.       *)
(*                                                                         *)
(* Surfaces are modelled at pixel level, in the memory layout the code     *)
(* indexes them with:                                                      *)
(*   mask_image  CAIRO_FORMAT_A1    rows of bytes, pixel x = bit x%8 of    *)
(*                                  byte x/8 (little-endian host)          *)
(*   pixel_ages  CAIRO_FORMAT_A8    rows of bytes, one per pixel           *)
(*   captures[i] CAIRO_FORMAT_RGB24 rows of 32-bit words, one per pixel,   *)
(*                                  each word as its four bytes, low first *)
(*   mask        alpha-only window surface, rows of 0/1 alpha              *)
(* cairo's fill of the cleaning arc is modelled at pixel granularity: a    *)
(* pixel is cleared iff its centre lies within the radius (fractional      *)
(* coverage of boundary pixels is not represented).                        *)
(***************************************************************************)
EXTENDS Integers, Sequences, FiniteSets, TLC

(***************************************************************************)
(* Program constants (plasmasaver.c:29-46).                                *)
(***************************************************************************)
BAR_PIXEL_INCREMENT == 10
MIN_CHANGE_THRESHOLD == 2

(***************************************************************************)
(* Bounds of the model.  MAX_AGE is 150 and POINTER_CLEANING_RADIUS is 100 *)
(* in plasmasaver.c:38,43; they are scaled down with the screen so that    *)
(* promotion and partial circles occur in small state spaces.              *)
(***************************************************************************)
MAX_AGE == 3
POINTER_CLEANING_RADIUS == 1
MaxWidth == 2
MaxHeight == 2
MaxPixels == 2
MaxBarWidth == 12

UCHAR == 2 ^ 8       \* unsigned char arithmetic is modulo 2^8

VARIABLES
  initialized,       \* data->initialized
  timers,            \* registered GLib timeout sources
  mask,              \* data->mask        (render-resident alpha surface)
  mask_image,        \* data->mask_image  (A1 image surface)
  pixel_ages,        \* data->pixel_ages  (A8 image surface)
  captures,          \* data->captures[0..1] (RGB24 image surfaces)
  width, height,     \* data->width, data->height
  capture_index,     \* data->capture_index
  bar_x,             \* data->bar_x
  pointer_x,         \* data->pointer_x
  pointer_y,         \* data->pointer_y
  loop,              \* "running" | "quit" | "exited": gtk_main's state
  last,              \* history: <<handler, path taken, input read>> of the
                     \* last dispatched handler
  old_width,         \* history: data->width as on_draw / on_draw_timer found it
  old_bar_x,         \* history: data->bar_x as on_draw / on_draw_timer found it
  found,             \* history: what the last handler found at the pixels it
                     \* reset, a subset of {"masked", "aged"}
  live,              \* the per-session surfaces created and not yet destroyed
  fault,             \* history: the misuses of a surface or a source so far
  ticks              \* history: the capture ticks of the session, as far as
                     \* a specification counts them

vars == <<initialized, timers, mask, mask_image, pixel_ages, captures, width,
          height, capture_index, bar_x, pointer_x, pointer_y, loop, last,
          old_width, old_bar_x, found, live, fault, ticks>>

(***************************************************************************)
(* Inputs.                                                                 *)
(***************************************************************************)
\* Allocated window sizes on_draw can observe.
Sizes == {s \in (1..MaxWidth) \X (1..MaxHeight) : s[1] * s[2] <= MaxPixels}

\* Window sizes of the bar-animation specification: one row, wide.
BarSizes == {<<w, 1>> : w \in 1..MaxBarWidth}

\* Pointer positions reported by the root window; they may lie outside the
\* overlay's buffer (x >= width or y >= height).
PointerXs == 0..MaxWidth
PointerYs == 0..MaxHeight

\* Pixel values the root window can show, as CAIRO_FORMAT_RGB24 words:
\* unused byte, red, green, blue from the top byte down.  A word is kept as
\* its bytes <<bits 0-7, bits 8-15, bits 16-23, bits 24-31>>.
XRGB(pad, r, g, b) == <<b, g, r, pad>>
Black == XRGB(0, 0, 0, 0)
NearBlack == XRGB(255, 0, 0, MIN_CHANGE_THRESHOLD - 1)
Greenish == XRGB(0, 0, MIN_CHANGE_THRESHOLD, MIN_CHANGE_THRESHOLD - 1)

\* Screen contents: two uniform screens and a chequered one.
Screens == {"black", "near-black", "chequered"}
Screen(k, x, y) ==
  CASE k = "black" -> Black
    [] k = "near-black" -> NearBlack
    [] k = "chequered" -> IF (x + y) % 2 = 0 THEN Greenish ELSE Black

(***************************************************************************)
(* Surfaces.                                                               *)
(***************************************************************************)
Cols(w) == 0..(w - 1)
Rows(h) == 0..(h - 1)

\* cairo_format_stride_for_width(CAIRO_FORMAT_A1, w): rows padded to 32 bits.
A1Stride(w) == ((w + 31) \div 32) * 4

Pow2(k) == 2 ^ k
BitOf(b, k) == (b \div Pow2(k)) % 2

\* Mutant of NewA8: the new age map takes over the old ages where the old
\* and the new size overlap.
NewA8_Migrated(w, h) ==
  [y \in Rows(h) |->
    [x \in Cols(w) |->
      IF initialized /\ y \in Rows(height) /\ x \in Cols(width)
        THEN pixel_ages[y][x] ELSE 0]]

\* cairo_image_surface_create / gdk_window_create_similar_surface: all zero.
NewA1(w, h) == [y \in Rows(h) |-> [b \in 0..(A1Stride(w) - 1) |-> 0]]
NewA8(w, h) == [y \in Rows(h) |-> [x \in Cols(w) |-> 0]]
\* Mutant of NewRGB24: the capture buffers start white instead of zeroed.
NewRGB24_White(w, h) ==
  [y \in Rows(h) |-> [x \in Cols(w) |-> <<255, 255, 255, 0>>]]

NewRGB24(w, h) == [y \in Rows(h) |-> [x \in Cols(w) |-> <<0, 0, 0, 0>>]]
NewAlpha(w, h) == [y \in Rows(h) |-> [x \in Cols(w) |-> 0]]

\* Pixel (x, y) of the A1 mask image, as line 193-195 reads it.
MaskBit(m, x, y) == BitOf(m[y][x \div 8], x % 8)

\* The surfaces of a session (struct data_t, lines 62-65).
SessionSurfaces ==
  {"mask", "mask_image", "pixel_ages", "captures[0]", "captures[1]"}

\* A handler drawing on or reading the given surfaces (cairo_create,
\* cairo_image_surface_get_data, cairo_set_source_surface): a misuse when
\* one of them has been destroyed.
Touch(surfaces) ==
  IF surfaces \subseteq live THEN {} ELSE {"use of a destroyed surface"}

Init ==
  /\ initialized = FALSE
  /\ timers = {"capture", "mouse"}
  /\ mask = << >>
  /\ mask_image = << >>
  /\ pixel_ages = << >>
  /\ captures = [i \in 0..1 |-> << >>]
  /\ width = 0
  /\ height = 0
  /\ capture_index = 0
  /\ bar_x = 0
  /\ pointer_x = 0
  /\ pointer_y = 0
  /\ loop = "running"
  /\ last = <<"main", "started", "none">>
  /\ old_width = 0
  /\ old_bar_x = 0
  /\ found = {}
  /\ live = {}
  /\ fault = {}
  /\ ticks = 0

(***************************************************************************)
(* History.                                                                *)
(***************************************************************************)
\* The pixels <<x, y>> of the session.
Pixels == Cols(width) \X Rows(height)

\* What the session holds at the given pixels, before the handler resets
\* them.
Found(pixels) ==
  IF ~initialized THEN {}
  ELSE {t \in {"masked", "aged"} :
         \E p \in pixels :
           \/ t = "masked" /\ MaskBit(mask_image, p[1], p[2]) = 1
           \/ t = "aged" /\ pixel_ages[p[2]][p[1]] > 0}

\* The bar handlers record the width and bar position they found.
BarHistory(keep) ==
  /\ old_width' = IF keep THEN width ELSE 0
  /\ old_bar_x' = IF keep THEN bar_x ELSE 0

(***************************************************************************)
(* on_screen_capture_timer (lines 160-240).                                *)
(***************************************************************************)
Abs(n) == IF n < 0 THEN -n ELSE n

\* Lines 202-210: the three low bytes of the two words are compared; the
\* top byte is never looked at.  Channel(pix, i) is (pix >> 8*i) & 0xFF.
Channel(pix, i) == pix[i + 1]

\* Mutants of Different: the comparison of line 207 made strict; the loop of
\* line 203 run over all four bytes.
Different_Strict(current_pix, last_pix) ==
  \E i \in 0..2 :
    Abs(Channel(current_pix, i) - Channel(last_pix, i)) > MIN_CHANGE_THRESHOLD
Different_FourBytes(current_pix, last_pix) ==
  \E i \in 0..3 :
    Abs(Channel(current_pix, i) - Channel(last_pix, i)) >= MIN_CHANGE_THRESHOLD

Different(current_pix, last_pix) ==
  \E i \in 0..2 :
    Abs(Channel(current_pix, i) - Channel(last_pix, i)) >= MIN_CHANGE_THRESHOLD

\* Mutants of DiffPixel.
\* A masked pixel whose colour changed is unmasked again.
DiffPixel_UnmaskOnChange(byte_val, bit, age, current_pix, last_pix) ==
  IF BitOf(byte_val, bit) = 1
    THEN IF Different(current_pix, last_pix)
      THEN [byte |-> byte_val - Pow2(bit), age |-> 0, changed |-> TRUE]
      ELSE [byte |-> byte_val, age |-> age, changed |-> FALSE]
    ELSE IF ~Different(current_pix, last_pix)
      THEN IF (age + 1) % UCHAR >= MAX_AGE
        THEN [byte |-> byte_val + Pow2(bit), age |-> 0, changed |-> TRUE]
        ELSE [byte |-> byte_val, age |-> (age + 1) % UCHAR, changed |-> FALSE]
      ELSE [byte |-> byte_val, age |-> 0, changed |-> FALSE]

\* The age is compared with > instead of >=: promotion comes a tick late.
DiffPixel_LatePromotion(byte_val, bit, age, current_pix, last_pix) ==
  IF BitOf(byte_val, bit) = 1
    THEN [byte |-> byte_val, age |-> age, changed |-> FALSE]
    ELSE IF ~Different(current_pix, last_pix)
      THEN IF (age + 1) % UCHAR > MAX_AGE
        THEN [byte |-> byte_val + Pow2(bit), age |-> 0, changed |-> TRUE]
        ELSE [byte |-> byte_val, age |-> (age + 1) % UCHAR, changed |-> FALSE]
      ELSE [byte |-> byte_val, age |-> 0, changed |-> FALSE]

\* A changed pixel keeps its age (the else branch of line 217 is lost).
DiffPixel_NoReset(byte_val, bit, age, current_pix, last_pix) ==
  IF BitOf(byte_val, bit) = 1
    THEN [byte |-> byte_val, age |-> age, changed |-> FALSE]
    ELSE IF ~Different(current_pix, last_pix)
      THEN IF (age + 1) % UCHAR >= MAX_AGE
        THEN [byte |-> byte_val + Pow2(bit), age |-> 0, changed |-> TRUE]
        ELSE [byte |-> byte_val, age |-> (age + 1) % UCHAR, changed |-> FALSE]
      ELSE [byte |-> byte_val, age |-> age, changed |-> FALSE]

\* A masked pixel is still aged (the continue of line 197 is lost and the
\* bit is set again when the age comes round).
DiffPixel_AgesMasked(byte_val, bit, age, current_pix, last_pix) ==
  IF ~Different(current_pix, last_pix)
    THEN IF (age + 1) % UCHAR >= MAX_AGE
      THEN [byte |-> IF BitOf(byte_val, bit) = 1 THEN byte_val
                                                ELSE byte_val + Pow2(bit),
            age |-> 0, changed |-> TRUE]
      ELSE [byte |-> byte_val, age |-> (age + 1) % UCHAR, changed |-> FALSE]
    ELSE [byte |-> byte_val, age |-> 0, changed |-> FALSE]

\* mask_changed is also set when a changed pixel's age is reset.
DiffPixel_DirtyOnReset(byte_val, bit, age, current_pix, last_pix) ==
  IF BitOf(byte_val, bit) = 1
    THEN [byte |-> byte_val, age |-> age, changed |-> FALSE]
    ELSE IF ~Different(current_pix, last_pix)
      THEN IF (age + 1) % UCHAR >= MAX_AGE
        THEN [byte |-> byte_val + Pow2(bit), age |-> 0, changed |-> TRUE]
        ELSE [byte |-> byte_val, age |-> (age + 1) % UCHAR, changed |-> FALSE]
      ELSE [byte |-> byte_val, age |-> 0, changed |-> TRUE]

\* Promotion sets the bit but stores the incremented age (line 214 is lost).
DiffPixel_PromoteKeepsAge(byte_val, bit, age, current_pix, last_pix) ==
  IF BitOf(byte_val, bit) = 1
    THEN [byte |-> byte_val, age |-> age, changed |-> FALSE]
    ELSE IF ~Different(current_pix, last_pix)
      THEN IF (age + 1) % UCHAR >= MAX_AGE
        THEN [byte |-> byte_val + Pow2(bit), age |-> (age + 1) % UCHAR,
              changed |-> TRUE]
        ELSE [byte |-> byte_val, age |-> (age + 1) % UCHAR, changed |-> FALSE]
      ELSE [byte |-> byte_val, age |-> 0, changed |-> FALSE]

\* The age is tested before it is incremented (age++ for ++age).
DiffPixel_PostIncrement(byte_val, bit, age, current_pix, last_pix) ==
  IF BitOf(byte_val, bit) = 1
    THEN [byte |-> byte_val, age |-> age, changed |-> FALSE]
    ELSE IF ~Different(current_pix, last_pix)
      THEN IF age >= MAX_AGE
        THEN [byte |-> byte_val + Pow2(bit), age |-> 0, changed |-> TRUE]
        ELSE [byte |-> byte_val, age |-> (age + 1) % UCHAR, changed |-> FALSE]
      ELSE [byte |-> byte_val, age |-> 0, changed |-> FALSE]

\* Promotion comes a tick early (the age compared with MAX_AGE - 1).
DiffPixel_EarlyPromotion(byte_val, bit, age, current_pix, last_pix) ==
  IF BitOf(byte_val, bit) = 1
    THEN [byte |-> byte_val, age |-> age, changed |-> FALSE]
    ELSE IF ~Different(current_pix, last_pix)
      THEN IF (age + 1) % UCHAR >= MAX_AGE - 1
        THEN [byte |-> byte_val + Pow2(bit), age |-> 0, changed |-> TRUE]
        ELSE [byte |-> byte_val, age |-> (age + 1) % UCHAR, changed |-> FALSE]
      ELSE [byte |-> byte_val, age |-> 0, changed |-> FALSE]

\* Lines 193-220 for one pixel: the new mask byte, the new age and whether
\* the mask changed.  byte_val is mask[byte] as the pixel finds it.
DiffPixel(byte_val, bit, age, current_pix, last_pix) ==
  IF BitOf(byte_val, bit) = 1
    THEN [byte |-> byte_val, age |-> age, changed |-> FALSE]
    ELSE IF ~Different(current_pix, last_pix)
      THEN IF (age + 1) % UCHAR >= MAX_AGE
        THEN [byte |-> byte_val + Pow2(bit), age |-> 0, changed |-> TRUE]
        ELSE [byte |-> byte_val, age |-> (age + 1) % UCHAR, changed |-> FALSE]
      ELSE [byte |-> byte_val, age |-> 0, changed |-> FALSE]

\* Lines 192-221: the inner loop over x, from column x on.
RECURSIVE DiffRow(_, _, _, _, _, _, _)
DiffRow(x, w, mask_row, ages_row, current_row, last_row, changed) ==
  IF x >= w
    THEN [mask |-> mask_row, ages |-> ages_row, changed |-> changed]
    ELSE LET p == DiffPixel(mask_row[x \div 8], x % 8, ages_row[x],
                            current_row[x], last_row[x])
         IN DiffRow(x + 1, w,
                    [mask_row EXCEPT ![x \div 8] = p.byte],
                    [ages_row EXCEPT ![x] = p.age],
                    current_row, last_row, changed \/ p.changed)

\* Lines 191-226: the outer loop over y; rows do not overlap.
DiffSurfaces(w, h, m, ages, current, last_s) ==
  LET row(y) == DiffRow(0, w, m[y], ages[y], current[y], last_s[y], FALSE)
  IN [mask |-> [y \in Rows(h) |-> row(y).mask],
      ages |-> [y \in Rows(h) |-> row(y).ages],
      changed |-> \E y \in Rows(h) : row(y).changed]

\* Lines 171-175: the root window painted over the whole capture surface.
Capture(k, w, h) == [y \in Rows(h) |-> [x \in Cols(w) |-> Screen(k, x, y)]]

\* Lines 231-236: mask_image painted over mask with OPERATOR_SOURCE.
Upload(m, w, h) == [y \in Rows(h) |-> [x \in Cols(w) |-> MaskBit(m, x, y)]]

\* Mutant of ScreenCaptureTimer: line 168 is lost, the buffers never swap.
ScreenCaptureTimer_NoSwap(shots) ==
  /\ "capture" \in timers
  /\ loop # "exited"
  /\ BarHistory(FALSE)
  /\ IF ~initialized
       THEN /\ last' = <<"on_screen_capture_timer", "uninitialized", "none">>
            /\ found' = {}
            /\ UNCHANGED <<initialized, timers, mask, mask_image, pixel_ages,
                           captures, width, height, capture_index, bar_x,
                           pointer_x, pointer_y, loop, live, fault>>
       ELSE \E current \in shots :
              LET other_capture_index == 1 - capture_index
                  last_surface == captures[other_capture_index]
                  d == DiffSurfaces(width, height, mask_image, pixel_ages,
                                    current, last_surface)
                  differing == {p \in Pixels :
                                 Different(current[p[2]][p[1]],
                                           last_surface[p[2]][p[1]])}
              IN /\ capture_index' = capture_index
                 /\ captures' = [captures EXCEPT ![capture_index] = current]
                 /\ mask_image' = d.mask
                 /\ pixel_ages' = d.ages
                 /\ mask' = IF d.changed
                              THEN Upload(d.mask, width, height)
                              ELSE mask
                 /\ last' = <<"on_screen_capture_timer",
                              IF d.changed THEN "uploaded" ELSE "diffed",
                              "none">>
                 /\ found' = Found(differing)
                 /\ fault' = fault \cup Touch(SessionSurfaces)
                 /\ UNCHANGED <<initialized, timers, width, height, bar_x,
                                pointer_x, pointer_y, loop, live>>

\* on_screen_capture_timer, with shots the surfaces the capture of lines
\* 171-175 can produce.
ScreenCaptureTimer(shots) ==
  /\ "capture" \in timers
  /\ loop # "exited"
  /\ BarHistory(FALSE)
  /\ IF ~initialized
       THEN /\ last' = <<"on_screen_capture_timer", "uninitialized", "none">>
            /\ found' = {}
            /\ UNCHANGED <<initialized, timers, mask, mask_image, pixel_ages,
                           captures, width, height, capture_index, bar_x,
                           pointer_x, pointer_y, loop, live, fault>>
       ELSE \E current \in shots :
              LET other_capture_index == 1 - capture_index
                  last_surface == captures[other_capture_index]
                  d == DiffSurfaces(width, height, mask_image, pixel_ages,
                                    current, last_surface)
                  differing == {p \in Pixels :
                                 Different(current[p[2]][p[1]],
                                           last_surface[p[2]][p[1]])}
              IN /\ capture_index' = other_capture_index
                 /\ captures' = [captures EXCEPT ![capture_index] = current]
                 /\ mask_image' = d.mask
                 /\ pixel_ages' = d.ages
                 /\ mask' = IF d.changed
                              THEN Upload(d.mask, width, height)
                              ELSE mask
                 /\ last' = <<"on_screen_capture_timer",
                              IF d.changed THEN "uploaded" ELSE "diffed",
                              "none">>
                 /\ found' = Found(differing)
                 /\ fault' = fault \cup Touch(SessionSurfaces)
                 /\ UNCHANGED <<initialized, timers, width, height, bar_x,
                                pointer_x, pointer_y, loop, live>>

OnScreenCaptureTimer ==
  /\ ScreenCaptureTimer({Capture(k, width, height) : k \in Screens})
  /\ UNCHANGED ticks

(***************************************************************************)
(* clear_arc and on_mouse_poll_timer (lines 242-276).                      *)
(***************************************************************************)
\* The filled arc of lines 245-248 at pixel (x, y): the pixel's centre
\* (x + 1/2, y + 1/2) is within the radius of (px, py); in half-pixel units.
InArc(x, y, px, py) ==
  (2 * x + 1 - 2 * px) * (2 * x + 1 - 2 * px)
    + (2 * y + 1 - 2 * py) * (2 * y + 1 - 2 * py)
  <= 4 * POINTER_CLEANING_RADIUS * POINTER_CLEANING_RADIUS

\* Mutants of ClearArc: the arc drawn from 0 to pi only (the half of the
\* circle below the pointer); the diameter taken for the radius.
ClearArc_HalfArc(surface, px, py, w, h) ==
  [y \in Rows(h) |->
    [x \in Cols(w) |-> IF InArc(x, y, px, py) /\ y >= py THEN 0
                                                         ELSE surface[y][x]]]
ClearArc_Diameter(surface, px, py, w, h) ==
  [y \in Rows(h) |->
    [x \in Cols(w) |->
      IF (2 * x + 1 - 2 * px) * (2 * x + 1 - 2 * px)
           + (2 * y + 1 - 2 * py) * (2 * y + 1 - 2 * py)
         <= 16 * POINTER_CLEANING_RADIUS * POINTER_CLEANING_RADIUS
        THEN 0 ELSE surface[y][x]]]

\* clear_arc on a surface with one value per pixel (mask, pixel_ages):
\* OPERATOR_CLEAR zeroes the covered pixels; cairo clips to the surface.
ClearArc(surface, px, py, w, h) ==
  [y \in Rows(h) |->
    [x \in Cols(w) |-> IF InArc(x, y, px, py) THEN 0 ELSE surface[y][x]]]

\* Mutant of ClearArcA1: line 272 is lost, the mask image is not cleared.
ClearArcA1_Lost(surface, px, py, w, h) == surface

\* clear_arc on the A1 mask image: the covered pixels' bits are zeroed.
ClearArcA1(surface, px, py, w, h) ==
  LET keep(y, b, k) ==
        IF 8 * b + k < w /\ InArc(8 * b + k, y, px, py)
          THEN 0
          ELSE BitOf(surface[y][b], k) * Pow2(k)
  IN [y \in Rows(h) |->
       [b \in 0..(A1Stride(w) - 1) |->
         keep(y, b, 0) + keep(y, b, 1) + keep(y, b, 2) + keep(y, b, 3)
           + keep(y, b, 4) + keep(y, b, 5) + keep(y, b, 6) + keep(y, b, 7)]]

\* Mutant of OnMousePollTimer: the test of line 265 is lost, the circle is
\* cleared on every poll.
OnMousePollTimer_AlwaysClears ==
  /\ "mouse" \in timers
  /\ loop # "exited"
  /\ BarHistory(FALSE)
  /\ UNCHANGED <<live, ticks>>
  /\ IF ~initialized
       THEN /\ last' = <<"on_mouse_poll_timer", "uninitialized", "none">>
            /\ found' = {}
            /\ UNCHANGED <<initialized, timers, mask, mask_image, pixel_ages,
                           captures, width, height, capture_index, bar_x,
                           pointer_x, pointer_y, loop, fault>>
       ELSE \E x \in PointerXs, y \in PointerYs :
              LET covered == {p \in Pixels : InArc(p[1], p[2], x, y)}
              IN /\ pointer_x' = x
                 /\ pointer_y' = y
                 /\ mask' = ClearArc(mask, x, y, width, height)
                 /\ mask_image' = ClearArcA1(mask_image, x, y, width, height)
                 /\ pixel_ages' = ClearArc(pixel_ages, x, y, width, height)
                 /\ last' = <<"on_mouse_poll_timer",
                              IF pointer_x = x /\ pointer_y = y
                                THEN "unmoved" ELSE "cleared",
                              <<x, y>>>>
                 /\ found' = Found(covered)
                 /\ fault' = fault \cup
                      Touch({"mask", "mask_image", "pixel_ages"})
                 /\ UNCHANGED <<initialized, timers, captures, width,
                                height, capture_index, bar_x, loop>>

OnMousePollTimer ==
  /\ "mouse" \in timers
  /\ loop # "exited"
  /\ BarHistory(FALSE)
  /\ UNCHANGED <<live, ticks>>
  /\ IF ~initialized
       THEN /\ last' = <<"on_mouse_poll_timer", "uninitialized", "none">>
            /\ found' = {}
            /\ UNCHANGED <<initialized, timers, mask, mask_image, pixel_ages,
                           captures, width, height, capture_index, bar_x,
                           pointer_x, pointer_y, loop, fault>>
       ELSE \E x \in PointerXs, y \in PointerYs :
              IF pointer_x = x /\ pointer_y = y
                THEN /\ last' = <<"on_mouse_poll_timer", "unmoved", <<x, y>>>>
                     /\ found' = {}
                     /\ UNCHANGED <<initialized, timers, mask, mask_image,
                                    pixel_ages, captures, width, height,
                                    capture_index, bar_x, pointer_x, pointer_y,
                                    loop, fault>>
                ELSE LET covered == {p \in Pixels : InArc(p[1], p[2], x, y)}
                     IN /\ pointer_x' = x
                        /\ pointer_y' = y
                        /\ mask' = ClearArc(mask, x, y, width, height)
                        /\ mask_image' =
                             ClearArcA1(mask_image, x, y, width, height)
                        /\ pixel_ages' =
                             ClearArc(pixel_ages, x, y, width, height)
                        /\ last' = <<"on_mouse_poll_timer", "cleared", <<x, y>>>>
                        /\ found' = Found(covered)
                        /\ fault' = fault \cup
                             Touch({"mask", "mask_image", "pixel_ages"})
                        /\ UNCHANGED <<initialized, timers, captures, width,
                                       height, capture_index, bar_x, loop>>

(***************************************************************************)
(* on_draw_timer (lines 88-94).                                            *)
(***************************************************************************)
\* Mutant of AdvanceBarX: the wrap done by one subtraction.
AdvanceBarX_OneSubtraction(x, w) ==
  IF x + BAR_PIXEL_INCREMENT >= w THEN x + BAR_PIXEL_INCREMENT - w
                                  ELSE x + BAR_PIXEL_INCREMENT

\* Line 91 (guint arithmetic; the sum stays far below 2^32 here).
AdvanceBarX(x, w) == (x + BAR_PIXEL_INCREMENT) % w

OnDrawTimer ==
  /\ "draw" \in timers
  /\ loop # "exited"
  /\ width # 0                                   \* assert(data->width)
  /\ BarHistory(TRUE)
  /\ bar_x' = AdvanceBarX(bar_x, width)
  /\ last' = <<"on_draw_timer", "advanced", "none">>
  /\ found' = {}
  /\ UNCHANGED <<initialized, timers, mask, mask_image, pixel_ages, captures,
                 width, height, capture_index, pointer_x, pointer_y, loop,
                 live, fault, ticks>>

(***************************************************************************)
(* release, on_draw, on_destroy (lines 75-86, 96-158).                     *)
(***************************************************************************)
\* Mutant of ScaleBarX: the quotient rounded to nearest.
ScaleBarX_Rounded(x, w, old_w) == (2 * x * w + old_w) \div (2 * old_w)

\* Line 130: integer division truncates (guint arithmetic; the product
\* stays far below 2^32 here).
ScaleBarX(x, w, old_w) == (x * w) \div old_w

\* Mutant of Release: line 79 is lost, the draw timer stays registered.
Release_KeepsTimer(ts) == ts

\* Lines 76-79: the sources left registered by release().
Release(ts) == IF initialized THEN ts \ {"draw"} ELSE ts

\* Lines 76-85: the surfaces left alive by release(), and what release()
\* misuses: g_source_remove of a source that is not registered,
\* cairo_surface_destroy of a surface already destroyed or never created.
ReleaseSurfaces(l) == IF initialized THEN l \ SessionSurfaces ELSE l
ReleaseFaults ==
  IF ~initialized THEN {}
  ELSE (IF "draw" \in timers THEN {} ELSE {"remove of an unregistered source"})
       \cup (IF SessionSurfaces \subseteq live
               THEN {} ELSE {"destroy of a dead surface"})

\* Lines 108-126 after release() left the sources ts and the surfaces l:
\* a draw timer registered beside one still running, a surface created
\* over one still alive.
CreateFaults(ts, l) ==
  (IF "draw" \in ts THEN {"second draw timer"} ELSE {})
  \cup (IF l \cap SessionSurfaces # {} THEN {"surface leaked"} ELSE {})

\* on_draw with the widget allocated w x h.  The painting of lines 138-148
\* writes to the window's context only.
OnDrawAt(w, h) ==
  /\ loop = "running"
  /\ BarHistory(TRUE)
  /\ IF ~initialized \/ width # w \/ height # h
       THEN /\ timers' = Release(timers) \cup {"draw"}
            /\ mask' = NewAlpha(w, h)
            /\ mask_image' = NewA1(w, h)
            /\ pixel_ages' = NewA8(w, h)
            /\ captures' = [i \in 0..1 |-> NewRGB24(w, h)]
            /\ bar_x' = IF initialized
                          THEN ScaleBarX(bar_x, w, width)
                          ELSE bar_x
            /\ width' = w
            /\ height' = h
            /\ initialized' = TRUE
            /\ last' = <<"on_draw",
                         IF initialized THEN "resized" ELSE "created",
                         <<w, h>>>>
            /\ found' = Found(Pixels)
            /\ live' = ReleaseSurfaces(live) \cup SessionSurfaces
            /\ fault' = fault \cup ReleaseFaults
                           \cup CreateFaults(Release(timers),
                                             ReleaseSurfaces(live))
            /\ ticks' = 0
            /\ UNCHANGED <<capture_index, pointer_x, pointer_y, loop>>
       ELSE /\ last' = <<"on_draw", "painted", <<w, h>>>>
            /\ found' = {}
            /\ fault' = fault \cup Touch({"mask"})
            /\ UNCHANGED <<initialized, timers, mask, mask_image, pixel_ages,
                           captures, width, height, capture_index, bar_x,
                           pointer_x, pointer_y, loop, live, ticks>>

OnDraw == \E s \in Sizes : OnDrawAt(s[1], s[2])

\* Mutant of OnDestroy: line 156 is lost, the session stays initialized.
OnDestroy_StaysInitialized ==
  /\ loop = "running"
  /\ BarHistory(FALSE)
  /\ timers' = Release(timers)
  /\ loop' = "quit"
  /\ last' = <<"on_destroy", "released", "none">>
  /\ found' = {}
  /\ live' = ReleaseSurfaces(live)
  /\ fault' = fault \cup ReleaseFaults
  /\ UNCHANGED <<initialized, mask, mask_image, pixel_ages, captures, width,
                 height, capture_index, bar_x, pointer_x, pointer_y, ticks>>

\* on_destroy: release(), initialized = FALSE, gtk_main_quit().  The freed
\* surfaces stay referenced by data; no handler reads them once initialized
\* is FALSE.
OnDestroy ==
  /\ loop = "running"
  /\ BarHistory(FALSE)
  /\ timers' = Release(timers)
  /\ initialized' = FALSE
  /\ loop' = "quit"
  /\ last' = <<"on_destroy", "released", "none">>
  /\ found' = {}
  /\ live' = ReleaseSurfaces(live)
  /\ fault' = fault \cup ReleaseFaults
  /\ UNCHANGED <<mask, mask_image, pixel_ages, captures, width, height,
                 capture_index, bar_x, pointer_x, pointer_y, ticks>>

\* main, lines 326-329: gtk_main() returns and the two timers are removed.
MainExit ==
  /\ loop = "quit"
  /\ BarHistory(FALSE)
  /\ timers' = timers \ {"mouse", "capture"}
  /\ loop' = "exited"
  /\ last' = <<"main", "exited", "none">>
  /\ found' = {}
  /\ UNCHANGED <<initialized, mask, mask_image, pixel_ages, captures, width,
                 height, capture_index, bar_x, pointer_x, pointer_y, live,
                 fault, ticks>>

Next ==
  \/ OnDraw
  \/ OnDrawTimer
  \/ OnScreenCaptureTimer
  \/ OnMousePollTimer
  \/ OnDestroy
  \/ MainExit

Spec == Init /\ [][Next]_vars

(***************************************************************************)
(* The bar animation alone, on wide one-row windows: draws (with resizes), *)
(* animation ticks and shutdown.  The capture and pointer handlers write   *)
(* neither bar_x nor width.                                                *)
(***************************************************************************)
OnDrawWide == \E s \in BarSizes : OnDrawAt(s[1], s[2])

NextBar ==
  \/ OnDrawWide
  \/ OnDrawTimer
  \/ OnDestroy
  \/ MainExit

SpecBar == Init /\ [][NextBar]_vars

(***************************************************************************)
(* The change classification alone, over all channel values: a 1 x 1       *)
(* session that has taken its first capture takes a second one.  The       *)
(* first capture differs from black in one channel (any value), the        *)
(* second in one channel (any value) and in the unused byte.               *)
(***************************************************************************)
ProbePixel(i, v, pad) == [c \in 1..4 |-> IF c = i + 1 THEN v
                                         ELSE IF c = 4 THEN pad ELSE 0]
ProbeShot(pix) == [y \in Rows(1) |-> [x \in Cols(1) |-> pix]]

\* The state after on_draw created a 1 x 1 session and the first capture
\* tick photographed pixel pix and compared it with the zeroed buffer.
InitProbe ==
  \E i \in 0..2, v \in 0..255 :
    LET pix == ProbePixel(i, v, 0)
        d == DiffSurfaces(1, 1, NewA1(1, 1), NewA8(1, 1), ProbeShot(pix),
                          NewRGB24(1, 1))
    IN /\ initialized = TRUE
       /\ timers = {"capture", "mouse", "draw"}
       /\ mask = NewAlpha(1, 1)
       /\ mask_image = d.mask
       /\ pixel_ages = d.ages
       /\ captures = [k \in 0..1 |-> IF k = 0 THEN ProbeShot(pix)
                                               ELSE NewRGB24(1, 1)]
       /\ width = 1
       /\ height = 1
       /\ capture_index = 1
       /\ bar_x = 0
       /\ pointer_x = 0
       /\ pointer_y = 0
       /\ loop = "running"
       /\ last = <<"on_screen_capture_timer", "diffed", "none">>
       /\ old_width = 0
       /\ old_bar_x = 0
       /\ found = {}
       /\ live = SessionSurfaces
       /\ fault = {}
       /\ ticks = 0

\* The second capture tick.
OnScreenCaptureTimerProbe ==
  /\ capture_index = 1
  /\ ScreenCaptureTimer({ProbeShot(ProbePixel(i, v, 255)) :
                           i \in 0..2, v \in 0..255})
  /\ UNCHANGED ticks

SpecThreshold == InitProbe /\ [][OnScreenCaptureTimerProbe]_vars

(***************************************************************************)
(* A screen that stays as it is: sessions on wide one-row windows in which *)
(* every capture tick after the first photographs what the tick before it  *)
(* did.  The ticks of a session are counted, up to MAX_AGE + 1; on_draw    *)
(* may resize the window, which starts the next session.                   *)
(***************************************************************************)
IdenticalShots ==
  IF ticks = 0 THEN {Capture(k, width, height) : k \in Screens}
               ELSE {captures[1 - capture_index]}

OnScreenCaptureTimerStill ==
  /\ ticks <= MAX_AGE
  /\ ScreenCaptureTimer(IdenticalShots)
  /\ ticks' = IF initialized THEN ticks + 1 ELSE ticks

NextStill ==
  \/ OnDrawWide
  \/ OnScreenCaptureTimerStill

SpecStill == Init /\ [][NextStill]_vars

(***************************************************************************)
(* Properties.                                                             *)
(***************************************************************************)
\* A step inside one session: no (re-)creation, no shutdown.
SessionStep ==
  initialized /\ initialized' /\ width' = width /\ height' = height

\* A step of on_screen_capture_timer that ran the diff.
DiffStep ==
  /\ initialized
  /\ last'[1] = "on_screen_capture_timer"
  /\ last'[2] \in {"diffed", "uploaded"}

\* A step of on_mouse_poll_timer that saw the pointer moved.
ClearStep ==
  /\ initialized
  /\ last'[1] = "on_mouse_poll_timer"
  /\ last'[2] = "cleared"

\* After a diff step: the capture just taken and the one it was compared
\* with, at pixel (x, y).
TakenPix(x, y) == captures[1 - capture_index][y][x]
ComparedPix(x, y) == captures[capture_index][y][x]

AfterDiff ==
  /\ initialized
  /\ last[1] = "on_screen_capture_timer"
  /\ last[2] \in {"diffed", "uploaded"}

AfterClear ==
  /\ initialized
  /\ last[1] = "on_mouse_poll_timer"
  /\ last[2] = "cleared"

\* C1: within a session a set mask bit (in either copy of the mask) stays
\* set across every step, and so across every capture/diff tick whatever
\* was captured, unless the step is a pointer clear whose circle covers the
\* pixel.
C1_MaskMonotonicExceptClearing ==
  [][SessionStep =>
       \A y \in Rows(height) : \A x \in Cols(width) :
         /\ (MaskBit(mask_image, x, y) = 1 /\ MaskBit(mask_image', x, y) = 0)
              => (ClearStep /\ InArc(x, y, pointer_x', pointer_y'))
         /\ (mask[y][x] = 1 /\ mask'[y][x] = 0)
              => (ClearStep /\ InArc(x, y, pointer_x', pointer_y'))]_vars

\* C1 witness: a diff tick has just run over a masked pixel whose colour
\* changed between the two captures, and the pixel is still masked.
C1_Witness ==
  /\ AfterDiff
  /\ \E y \in Rows(height) : \E x \in Cols(width) :
       /\ MaskBit(mask_image, x, y) = 1
       /\ mask[y][x] = 1
       /\ Different(TakenPix(x, y), ComparedPix(x, y))

\* C2: on a diff tick, a pixel that is not masked and not classified
\* changed gets age + 1 and stays unmasked while age + 1 < MAX_AGE; on the
\* tick where age + 1 reaches MAX_AGE its mask bit is set (in both copies)
\* and its age is 0.
C2_AgingMonotonicity ==
  [][DiffStep =>
       \A y \in Rows(height) : \A x \in Cols(width) :
         (/\ MaskBit(mask_image, x, y) = 0
          /\ ~Different(captures'[capture_index][y][x],
                        captures[1 - capture_index][y][x]))
         => IF pixel_ages[y][x] + 1 < MAX_AGE
              THEN /\ pixel_ages'[y][x] = pixel_ages[y][x] + 1
                   /\ MaskBit(mask_image', x, y) = 0
                   /\ mask'[y][x] = 0
              ELSE /\ pixel_ages'[y][x] = 0
                   /\ MaskBit(mask_image', x, y) = 1
                   /\ mask'[y][x] = 1]_vars

\* C2 witness: a diff tick has just promoted a pixel (the mask was
\* uploaded) while another, unchanged and unmasked, pixel was aged to
\* MAX_AGE - 1.
C2_Witness ==
  /\ AfterDiff
  /\ last[2] = "uploaded"
  /\ \E y \in Rows(height) : \E x \in Cols(width) :
       /\ MaskBit(mask_image, x, y) = 0
       /\ ~Different(TakenPix(x, y), ComparedPix(x, y))
       /\ pixel_ages[y][x] = MAX_AGE - 1

\* C3: on a diff tick, every pixel with a channel differing by at least
\* the threshold between the two captures has age 0 afterwards, masked or
\* not, whatever its age was.
C3_ChangeResetsAge ==
  [][DiffStep =>
       \A y \in Rows(height) : \A x \in Cols(width) :
         Different(captures'[capture_index][y][x],
                   captures[1 - capture_index][y][x])
         => pixel_ages'[y][x] = 0]_vars

\* C3 witness: a diff tick has just reset a changed pixel that had a
\* positive age.
C3_Witness ==
  /\ AfterDiff
  /\ "aged" \in found
  /\ \E y \in Rows(height) : \E x \in Cols(width) :
       /\ Different(TakenPix(x, y), ComparedPix(x, y))
       /\ pixel_ages[y][x] = 0

\* The largest absolute difference over the three colour channels (bytes
\* 1..3 of the word) of two pixels.
MaxOf(a, b) == IF a >= b THEN a ELSE b
ColourDistance(p, q) ==
  MaxOf(Abs(p[1] - q[1]), MaxOf(Abs(p[2] - q[2]), Abs(p[3] - q[3])))

\* C4: after a diff tick an unmasked pixel has age 0 (it was classified
\* changed) iff the largest difference over its three colour channels is
\* at least the threshold; the fourth byte does not count.  In particular
\* a largest difference of threshold - 1 leaves a positive age and one of
\* exactly threshold leaves age 0.
C4_ThresholdBoundary ==
  AfterDiff =>
    \A y \in Rows(height) : \A x \in Cols(width) :
      MaskBit(mask_image, x, y) = 0 =>
        (pixel_ages[y][x] = 0
           <=> ColourDistance(TakenPix(x, y), ComparedPix(x, y))
                 >= MIN_CHANGE_THRESHOLD)

\* C4 witness: a diff tick has classified as unchanged a pixel whose
\* largest channel difference is exactly threshold - 1 and whose unused
\* bytes differ by 255.
C4_Witness ==
  /\ AfterDiff
  /\ capture_index = 0
  /\ ColourDistance(TakenPix(0, 0), ComparedPix(0, 0))
       = MIN_CHANGE_THRESHOLD - 1
  /\ Abs(TakenPix(0, 0)[4] - ComparedPix(0, 0)[4]) = 255
  /\ pixel_ages[0][0] > 0

\* The other side of the boundary: a largest channel difference of exactly
\* the threshold has been classified as changed.
C4_WitnessChanged ==
  /\ AfterDiff
  /\ capture_index = 0
  /\ ColourDistance(TakenPix(0, 0), ComparedPix(0, 0)) = MIN_CHANGE_THRESHOLD
  /\ pixel_ages[0][0] = 0

C8_ResizeResetsDetection ==
  (last[1] = "on_draw" /\ last[2] \in {"created", "resized"}) =>
    /\ initialized
    /\ width = last[3][1]
    /\ height = last[3][2]
    /\ DOMAIN pixel_ages = Rows(height)
    /\ DOMAIN mask = Rows(height)
    /\ DOMAIN mask_image = Rows(height)
    /\ \A y \in Rows(height) :
         /\ DOMAIN pixel_ages[y] = Cols(width)
         /\ DOMAIN mask[y] = Cols(width)
         /\ \A x \in Cols(width) :
              /\ pixel_ages[y][x] = 0
              /\ mask[y][x] = 0
              /\ MaskBit(mask_image, x, y) = 0

\* C8 witness: a draw has just resized a session that held a masked pixel
\* and a pixel of positive age.
C8_Witness ==
  /\ last[1] = "on_draw"
  /\ last[2] = "resized"
  /\ found = {"masked", "aged"}

\* C9 as the specification states it: after a resize the bar position is old_pos * new_width /
\* old_width rounded to nearest, i.e. within 1/2 of the exact quotient.
C9_RoundedToNearest ==
  (last[1] = "on_draw" /\ last[2] = "resized") =>
    2 * Abs(bar_x * old_width - old_bar_x * width) <= old_width

\* C9, amended: after a resize the bar position is the quotient
\* old_pos * new_width / old_width truncated to an integer (its floor).
C9_BarRescaleTruncates ==
  (last[1] = "on_draw" /\ last[2] = "resized") =>
    /\ bar_x * old_width <= old_bar_x * width
    /\ old_bar_x * width < (bar_x + 1) * old_width

\* C9 witness: a resize has just scaled a bar position whose exact
\* quotient has a fractional part above 1/2.
C9_Witness ==
  /\ last[1] = "on_draw"
  /\ last[2] = "resized"
  /\ 2 * ((old_bar_x * width) % old_width) > old_width

\* C10: an animation tick sets the bar position to (old + increment) mod
\* width, and after every step of a session, animation tick or resize to
\* a larger or smaller width, the bar position is in [0, width).
C10_BarWraparoundAndRange ==
  [][/\ last'[1] = "on_draw_timer" =>
          /\ bar_x' \in 0..(width - 1)
          /\ \E q \in 0..BAR_PIXEL_INCREMENT :
               bar_x + BAR_PIXEL_INCREMENT = q * width + bar_x'
     /\ initialized' => (0 <= bar_x' /\ bar_x' < width')]_vars

\* C10 witness: an animation tick has just wrapped the bar position more
\* than once around a width smaller than the increment.
C10_Witness ==
  /\ last[1] = "on_draw_timer"
  /\ width < BAR_PIXEL_INCREMENT
  /\ old_bar_x + BAR_PIXEL_INCREMENT >= 2 * width
  /\ bar_x > 0

\* A pixel value whose three colour channels are all below the threshold:
\* the diff cannot tell it from a pixel of a zeroed buffer.
Dark(pix) == ~Different(pix, <<0, 0, 0, 0>>)

\* C11 as the specification states it: in a fresh session, after MAX_AGE
\* identical captures (one diff tick each) every pixel, whatever its
\* colour, has its mask bit set and age 0.
C11_PromotedAfterMaxAgeCaptures ==
  (initialized /\ ticks = MAX_AGE) =>
    \A p \in Pixels :
      /\ MaskBit(mask_image, p[1], p[2]) = 1
      /\ pixel_ages[p[2]][p[1]] = 0

\* C11, amended: in a fresh session, after MAX_AGE identical captures a
\* pixel has its mask bit set (in both copies) and age 0 exactly if its
\* three channels are all below the threshold; every other pixel is still
\* unmasked, at age MAX_AGE - 1, and is masked with age 0 after one more
\* identical capture.
C11_PromotionScenario ==
  /\ (initialized /\ ticks = MAX_AGE) =>
       \A p \in Pixels :
         IF Dark(TakenPix(p[1], p[2]))
           THEN /\ MaskBit(mask_image, p[1], p[2]) = 1
                /\ mask[p[2]][p[1]] = 1
                /\ pixel_ages[p[2]][p[1]] = 0
           ELSE /\ MaskBit(mask_image, p[1], p[2]) = 0
                /\ mask[p[2]][p[1]] = 0
                /\ pixel_ages[p[2]][p[1]] = MAX_AGE - 1
  /\ (initialized /\ ticks = MAX_AGE + 1) =>
       \A p \in Pixels :
         /\ MaskBit(mask_image, p[1], p[2]) = 1
         /\ mask[p[2]][p[1]] = 1
         /\ pixel_ages[p[2]][p[1]] = 0

\* C11 witness: MAX_AGE identical captures of a screen have been diffed in
\* a session more than 8 pixels wide; a dark pixel is masked and a pixel
\* with a channel at the threshold is not.
C11_Witness ==
  /\ initialized
  /\ ticks = MAX_AGE
  /\ width > 8
  /\ \E p \in Pixels :
       Dark(TakenPix(p[1], p[2])) /\ MaskBit(mask_image, p[1], p[2]) = 1
  /\ \E p \in Pixels :
       ~Dark(TakenPix(p[1], p[2])) /\ MaskBit(mask_image, p[1], p[2]) = 0

\* C12: a pointer poll of a session that reads the last known position
\* changes neither the ages, nor either mask copy, nor the captures and
\* their index, nor the bar position, nor the last known position, nor
\* the session itself, whatever the pixels around that position hold.
C12_UnmovedPointerNoOp ==
  [][(/\ initialized
      /\ last'[1] = "on_mouse_poll_timer"
      /\ last'[2] # "uninitialized"
      /\ last'[3] = <<pointer_x, pointer_y>>)
     => /\ last'[2] = "unmoved"
        /\ UNCHANGED <<pixel_ages, mask, mask_image, captures, capture_index,
                       bar_x, pointer_x, pointer_y, width, height,
                       initialized, timers, live, fault>>]_vars

\* C12 witness: a poll has just read the unmoved pointer while a pixel
\* inside the circle around it is masked and one is aged.
C12_Witness ==
  /\ initialized
  /\ last[1] = "on_mouse_poll_timer"
  /\ last[2] = "unmoved"
  /\ \E p \in Pixels :
       /\ InArc(p[1], p[2], pointer_x, pointer_y)
       /\ MaskBit(mask_image, p[1], p[2]) = 1
  /\ \E p \in Pixels :
       /\ InArc(p[1], p[2], pointer_x, pointer_y)
       /\ pixel_ages[p[2]][p[1]] > 0

\* C13: on_destroy leaves no surface of the session alive and no animation
\* timer registered, and marks the session uninitialized; the capture and
\* pointer timers are removed when the main loop has returned.  From
\* on_destroy on, whichever of the remaining timers fire and in whatever
\* order, no step changes the session's state and no handler has used a
\* destroyed surface or removed a source that was not registered.
C13_Shutdown ==
  [][/\ last'[1] = "on_destroy" =>
          /\ ~initialized'
          /\ live' = {}
          /\ "draw" \notin timers'
          /\ loop' = "quit"
     /\ loop' = "exited" => timers' = {}
     /\ loop # "running" =>
          UNCHANGED <<initialized, mask, mask_image, pixel_ages, captures,
                      width, height, capture_index, bar_x, pointer_x,
                      pointer_y, live>>
     /\ fault' = {}]_vars

\* C13 witness: after on_destroy ended a session that held a masked pixel,
\* the capture or the pointer timer has fired again.
C13_Witness ==
  /\ loop = "quit"
  /\ live = {}
  /\ width > 0
  /\ last[1] \in {"on_screen_capture_timer", "on_mouse_poll_timer"}
  /\ last[2] = "uninitialized"
  /\ \E p \in Pixels : MaskBit(mask_image, p[1], p[2]) = 1

\* C14: a diff tick leaves the age and the mask bit (in both copies) of
\* every pixel that was masked before the tick as they were, whether or
\* not the pixel's colour changed between the two captures.
C14_MaskedPixelsFrozen ==
  [][DiffStep =>
       \A p \in Pixels :
         MaskBit(mask_image, p[1], p[2]) = 1 =>
           /\ MaskBit(mask_image', p[1], p[2]) = 1
           /\ mask'[p[2]][p[1]] = mask[p[2]][p[1]]
           /\ pixel_ages'[p[2]][p[1]] = pixel_ages[p[2]][p[1]]]_vars

\* C14 witness: a diff tick has just passed over a masked pixel whose
\* colour had changed and over a masked pixel whose colour had not.
C14_Witness ==
  /\ AfterDiff
  /\ "masked" \in found
  /\ \E p \in Pixels :
       /\ MaskBit(mask_image, p[1], p[2]) = 1
       /\ ~Different(TakenPix(p[1], p[2]), ComparedPix(p[1], p[2]))
       /\ last[2] = "diffed"

\* C15: a capture tick of a session stores the new capture in the buffer
\* capture_index names, leaves the other buffer (the one it compares with)
\* untouched, classifies every unmasked pixel by comparing exactly these
\* two, and then flips capture_index; no other step of the session writes
\* a buffer or the index.  So each diff compares the new capture with the
\* one stored by the tick before it, never with itself or an older one.
C15_DoubleBuffering ==
  [][/\ DiffStep =>
          /\ capture_index' = 1 - capture_index
          /\ captures'[capture_index'] = captures[capture_index']
          /\ \E k \in Screens :
               captures'[capture_index] = Capture(k, width, height)
          /\ \A p \in Pixels :
               MaskBit(mask_image, p[1], p[2]) = 0 =>
                 ((/\ pixel_ages'[p[2]][p[1]] = 0
                   /\ MaskBit(mask_image', p[1], p[2]) = 0)
                  <=> Different(captures'[capture_index][p[2]][p[1]],
                                captures'[capture_index'][p[2]][p[1]]))
     /\ (SessionStep /\ ~DiffStep) =>
          UNCHANGED <<captures, capture_index>>]_vars

\* C15 witness: after a diff tick both buffers hold a capture of a screen
\* that is not black, the two differ at some pixel and agree at another.
C15_Witness ==
  /\ AfterDiff
  /\ \A i \in 0..1 : captures[i] # Capture("black", width, height)
  /\ \A i \in 0..1 : captures[i] # NewRGB24(width, height)
  /\ \E p \in Pixels :
       Different(captures[0][p[2]][p[1]], captures[1][p[2]][p[1]])
  /\ \E p \in Pixels :
       ~Different(captures[0][p[2]][p[1]], captures[1][p[2]][p[1]])

\* C16: in every reachable state either the session is initialized, all
\* five surfaces are alive and the animation timer is registered, or the
\* session is uninitialized, no surface is alive and no animation timer is
\* registered; and no step so far has registered a second animation timer
\* beside a running one, created a surface over a live one, destroyed a
\* surface that was not alive or removed a timer that was not registered.
C16_AllOrNothing ==
  /\ IF initialized
       THEN live = SessionSurfaces /\ "draw" \in timers
       ELSE live = {} /\ "draw" \notin timers
  /\ fault = {}
  /\ timers \subseteq {"capture", "mouse", "draw"}

\* C16 witness: a resize has just replaced a session that held a masked
\* pixel by a new one, with all surfaces alive and the timer registered.
C16_Witness ==
  /\ last[1] = "on_draw"
  /\ last[2] = "resized"
  /\ "masked" \in found
  /\ live = SessionSurfaces
  /\ "draw" \in timers

\* C17: a diff tick uploads the mask image to the render-resident mask iff
\* the tick set the mask bit of at least one pixel; after an upload the
\* render-resident mask equals the mask image, and a tick without one
\* leaves both mask copies as they were.
C17_UploadOnlyWhenDirty ==
  [][DiffStep =>
       /\ (last'[2] = "uploaded")
            <=> \E p \in Pixels :
                  /\ MaskBit(mask_image, p[1], p[2]) = 0
                  /\ MaskBit(mask_image', p[1], p[2]) = 1
       /\ last'[2] = "uploaded" => mask' = Upload(mask_image', width, height)
       /\ last'[2] = "diffed" => (mask' = mask /\ mask_image' = mask_image)]_vars

\* C17 witness: a diff tick that promoted no pixel, and so uploaded
\* nothing, has reset the age of a changed pixel while another pixel is
\* masked.
C17_Witness ==
  /\ AfterDiff
  /\ last[2] = "diffed"
  /\ "aged" \in found
  /\ \E p \in Pixels : mask[p[2]][p[1]] = 1

\* C18: in every reachable state of a session, every pixel whose mask bit
\* is set (in either copy of the mask) has age 0.
C18_MaskedHasAgeZero ==
  initialized =>
    \A p \in Pixels :
      (MaskBit(mask_image, p[1], p[2]) = 1 \/ mask[p[2]][p[1]] = 1)
        => pixel_ages[p[2]][p[1]] = 0

\* C18 witness: a diff tick has just promoted a pixel, another pixel has a
\* positive age, and a pointer position is known away from the origin.
C18_Witness ==
  /\ AfterDiff
  /\ last[2] = "uploaded"
  /\ pointer_x + pointer_y > 0
  /\ \E p \in Pixels : MaskBit(mask_image, p[1], p[2]) = 1
  /\ \E p \in Pixels : pixel_ages[p[2]][p[1]] > 0

\* C19: in every reachable state of a session every stored age is in
\* 0..MAX_AGE - 1; MAX_AGE fits the 8-bit counter, so the increment never
\* wraps.
C19_AgeRange ==
  /\ MAX_AGE < UCHAR
  /\ initialized =>
       \A p \in Pixels : pixel_ages[p[2]][p[1]] \in 0..(MAX_AGE - 1)

\* C19 witness: a session holds a pixel at age MAX_AGE - 1 beside a pixel
\* whose counter reached MAX_AGE and was stored as 0 with the mask bit set.
C19_Witness ==
  /\ initialized
  /\ \E p \in Pixels : pixel_ages[p[2]][p[1]] = MAX_AGE - 1
  /\ \E p \in Pixels :
       MaskBit(mask_image, p[1], p[2]) = 1 /\ pixel_ages[p[2]][p[1]] = 0

\* C20: the first capture tick of a session, created by the first draw or
\* by a resize, runs the diff against the zeroed other buffer: after it
\* that buffer is still all zero, and (MAX_AGE being above 1) no pixel is
\* masked and a pixel has age 1 if its three captured channel values are
\* all below the threshold and age 0 otherwise.
C20_FirstTickAgainstZero ==
  (initialized /\ ticks = 1) =>
    \A p \in Pixels :
      /\ ComparedPix(p[1], p[2]) = <<0, 0, 0, 0>>
      /\ MAX_AGE > 1 =>
           /\ MaskBit(mask_image, p[1], p[2]) = 0
           /\ mask[p[2]][p[1]] = 0
           /\ pixel_ages[p[2]][p[1]] =
                IF \A i \in 0..2 :
                     Channel(TakenPix(p[1], p[2]), i) < MIN_CHANGE_THRESHOLD
                  THEN 1 ELSE 0

\* C20 witness: the first tick of a session that a resize created (the
\* capture index shows an earlier session's tick) has left a pixel at age
\* 1 and another at age 0.
C20_Witness ==
  /\ initialized
  /\ ticks = 1
  /\ capture_index = 0
  /\ \E p \in Pixels : pixel_ages[p[2]][p[1]] = 1
  /\ \E p \in Pixels : pixel_ages[p[2]][p[1]] = 0

====
